---- MODULE Spec2Model ----
(***************************************************************************)
(* The persistence layer of src/app.py: the SQLite schema, the policy      *)
(* repository (create / update status / queries by id, recency, date and   *)
(* date range) and the content / media repository, the connection each    *)
(* operation opens and closes, the two-attempt request of                  *)
(* generate_policy_analysis to the language model, and the page: the       *)
(* session state and the buttons of the sidebar and the tabs that write    *)
(* it (save policy, AI analysis, load, new policy, category, images,       *)
(* video prompts).                                                         *)
(*                                                                         *)
(* Texts that the code compares or converts are modelled as what they are: *)
(* ISO-8601 timestamps are sequences of character codes compared the way   *)
(* SQLite's BINARY collation compares TEXT, and JSON columns are sequences *)
(* of tokens written by json_dumps and read back by json_loads.            *)
(***************************************************************************)
EXTENDS Integers, Sequences, FiniteSets, TLC

VARIABLES
    tables,           \* names of the tables that exist in data/policies.db
    sqlite_sequence,  \* AUTOINCREMENT bookkeeping: table name -> largest rowid handed out
    policies,         \* rows of table policies, in rowid order
    policy_contents,  \* rows of table policy_contents, in rowid order
    generated_media,  \* rows of table generated_media, in rowid order
    clock,            \* the wall clock read by datetime.now(), in ticks
    last,             \* the most recent call, of a repository function or of a
                      \* handler of the page: [op, args, ret, raised]
    open_conns,       \* connections to data/policies.db that are open
    llm,              \* the call of generate_policy_analysis in progress, or the last one
    session           \* st.session_state of the one browser session

vars == <<tables, sqlite_sequence, policies, policy_contents, generated_media, clock, last,
          open_conns, llm, session>>

db == <<tables, sqlite_sequence, policies, policy_contents, generated_media>>

-----------------------------------------------------------------------------
(* Bounds of the model.                                                    *)

MaxRows == 2          \* rows the three tables may hold together
MaxClock == 3         \* last tick of the wall clock
FirstDay == 9         \* day of the month at tick 0
MaxSessionRows == 3   \* rows the three tables may hold together under the page
MaxImages == 2        \* images, and video prompt sets, the buttons may add to a session
MaxCalls == 2         \* calls of generate_policy_analysis

-----------------------------------------------------------------------------
(* Characters and TEXT values.                                             *)

Ord(c) ==
    CASE c = "-" -> 45
      [] c = "." -> 46
      [] c = "0" -> 48
      [] c = "1" -> 49
      [] c = "2" -> 50
      [] c = "4" -> 52
      [] c = "5" -> 53
      [] c = "T" -> 84

Digit(d) == Ord("0") + d

IsDigit(ch) == ch >= Ord("0") /\ ch <= Ord("0") + 9

\* memcmp order of two TEXT values (SQLite's default BINARY collation):
\* -1, 0 or 1; a proper prefix sorts first.
RECURSIVE TextCmp(_, _)
TextCmp(a, b) ==
    IF a = <<>> /\ b = <<>> THEN 0
    ELSE IF a = <<>> THEN -1
    ELSE IF b = <<>> THEN 1
    ELSE IF Head(a) < Head(b) THEN -1
    ELSE IF Head(a) > Head(b) THEN 1
    ELSE TextCmp(Tail(a), Tail(b))

\* SQL NULL, and NULL-aware comparisons: a comparison with NULL is not true.
SqlNull == <<>>

SqlEq(a, b) == a # SqlNull /\ b # SqlNull /\ TextCmp(a, b) = 0


\* BETWEEN without its upper end.
SqlBetween_ExclusiveEnd(x, lo, hi) ==
    /\ x # SqlNull /\ lo # SqlNull /\ hi # SqlNull
    /\ TextCmp(x, lo) >= 0
    /\ TextCmp(x, hi) < 0

\* BETWEEN SYMMETRIC: the bounds in either order.
SqlBetween_Symmetric(x, lo, hi) ==
    /\ x # SqlNull /\ lo # SqlNull /\ hi # SqlNull
    /\ \/ TextCmp(x, lo) >= 0 /\ TextCmp(x, hi) <= 0
       \/ TextCmp(x, hi) >= 0 /\ TextCmp(x, lo) <= 0

SqlBetween(x, lo, hi) ==
    /\ x # SqlNull /\ lo # SqlNull /\ hi # SqlNull
    /\ TextCmp(x, lo) >= 0
    /\ TextCmp(x, hi) <= 0

-----------------------------------------------------------------------------
(* The wall clock and ISO-8601 formatting.  The clock is sampled twice a   *)
(* day, on the second and half a second later; the calendar is a single    *)
(* month, 2024-01.                                                         *)

Ticks == 0..MaxClock

datetime_now == [day |-> FirstDay + (clock \div 2),
                 second |-> 0,
                 microsecond |-> 5 * (clock % 2)]

YearMonth == <<Ord("2"), Ord("0"), Ord("2"), Ord("4"), Ord("-"), Ord("0"), Ord("1"), Ord("-")>>

\* date.strftime("%Y-%m-%d"): the day zero-padded to two digits.
strftime_ymd(day) == YearMonth \o <<Digit(day \div 10), Digit(day % 10)>>

\* datetime.isoformat(): date, "T", time; the fraction is left out when the
\* microsecond is 0.  The time of day is written with its last digit of the
\* seconds and its first digit of the fraction.
isoformat(dt) ==
    strftime_ymd(dt.day) \o <<Ord("T"), Digit(dt.second)>>
        \o (IF dt.microsecond = 0 THEN <<>> ELSE <<Ord("."), Digit(dt.microsecond)>>)

Days == {FirstDay + (t \div 2) : t \in Ticks}


\* date(X) that keeps the time of day of X.
sqlite_date_KeepsTime(x) ==
    IF Len(x) >= 10 /\ \A i \in {1, 2, 3, 4, 6, 7, 9, 10} : IsDigit(x[i])
    THEN x
    ELSE SqlNull

\* SQLite's date(X): the YYYY-MM-DD part of a time value that parses
\* ("YYYY-MM-DD" alone or followed by "T" and a time), NULL otherwise.
sqlite_date(x) ==
    IF /\ Len(x) >= 10
       /\ \A i \in {1, 2, 3, 4, 6, 7, 9, 10} : IsDigit(x[i])
       /\ x[5] = Ord("-") /\ x[8] = Ord("-")
       /\ LET dd == 10 * (x[9] - Ord("0")) + (x[10] - Ord("0")) IN dd >= 1 /\ dd <= 31
       /\ \/ Len(x) = 10
          \/ /\ Len(x) >= 12
             /\ x[11] = Ord("T")
             /\ IsDigit(x[12])
             /\ \/ Len(x) = 12
                \/ Len(x) = 14 /\ x[13] = Ord(".") /\ IsDigit(x[14])
    THEN SubSeq(x, 1, 10)
    ELSE SqlNull

-----------------------------------------------------------------------------
(* Python values as far as the repository handles them.                    *)

None == [t |-> "NoneType", s |-> "", items |-> <<>>]

PyInt(n) == [t |-> "int", s |-> "", items |-> <<n>>]

Bool(b) == [t |-> "bool", s |-> "", items |-> <<b>>]

Str(x) == [t |-> "str", s |-> x, items |-> <<>>]

List(xs) == [t |-> "list", s |-> "", items |-> xs]

\* a dict, as the sequence of its members [k |-> key, v |-> value] in insertion order
Dict(ms) == [t |-> "dict", s |-> "", items |-> ms]

\* the exception json.loads raises on a text that is not JSON
JSONDecodeError == [t |-> "JSONDecodeError", s |-> "", items |-> <<>>]

\* Python truth value: None, "", [] and {} are false.
Truthy(v) ==
    CASE v.t = "NoneType" -> FALSE
      [] v.t = "str" -> v.s # ""
      [] v.t = "int" -> v.items[1] # 0
      [] v.t = "bool" -> v.items[1]
      [] OTHER -> v.items # <<>>

\* json.dumps(v, ensure_ascii=False): JSON text as a sequence of tokens.
RECURSIVE json_dumps(_), DumpElems(_), DumpMembers(_)
json_dumps(v) ==
    CASE v.t = "NoneType" -> <<"null">>
      [] v.t = "str" -> <<"\"", v.s, "\"">>
      [] v.t = "list" -> <<"[">> \o DumpElems(v.items) \o <<"]">>
      [] v.t = "dict" -> <<"{">> \o DumpMembers(v.items) \o <<"}">>

DumpElems(xs) ==
    IF xs = <<>> THEN <<>>
    ELSE json_dumps(Head(xs)) \o (IF Tail(xs) = <<>> THEN <<>> ELSE <<",">> \o DumpElems(Tail(xs)))

DumpMembers(ms) ==
    IF ms = <<>> THEN <<>>
    ELSE <<"\"", Head(ms).k, "\"", ":">> \o json_dumps(Head(ms).v)
             \o (IF Tail(ms) = <<>> THEN <<>> ELSE <<",">> \o DumpMembers(Tail(ms)))

\* json.loads(text): a recursive-descent parse of the token sequence.  Each
\* parser returns [ok, v, next]: the value read and the index after it.
ParseFail == [ok |-> FALSE, v |-> None, next |-> 0]

Tok(toks, i) == IF i >= 1 /\ i <= Len(toks) THEN toks[i] ELSE "<eof>"

RECURSIVE ParseValue(_, _), ParseElems(_, _, _), ParseMembers(_, _, _)
ParseValue(toks, i) ==
    CASE Tok(toks, i) = "null" -> [ok |-> TRUE, v |-> None, next |-> i + 1]
      [] Tok(toks, i) = "\"" ->
            IF i + 2 <= Len(toks) /\ toks[i + 2] = "\""
            THEN [ok |-> TRUE, v |-> Str(toks[i + 1]), next |-> i + 3]
            ELSE ParseFail
      [] Tok(toks, i) = "[" ->
            IF Tok(toks, i + 1) = "]"
            THEN [ok |-> TRUE, v |-> List(<<>>), next |-> i + 2]
            ELSE ParseElems(toks, i + 1, <<>>)
      [] Tok(toks, i) = "{" ->
            IF Tok(toks, i + 1) = "}"
            THEN [ok |-> TRUE, v |-> Dict(<<>>), next |-> i + 2]
            ELSE ParseMembers(toks, i + 1, <<>>)
      [] OTHER -> ParseFail

ParseElems(toks, i, acc) ==
    LET r == ParseValue(toks, i) IN
    IF ~r.ok THEN ParseFail
    ELSE IF Tok(toks, r.next) = "," THEN ParseElems(toks, r.next + 1, Append(acc, r.v))
    ELSE IF Tok(toks, r.next) = "]"
         THEN [ok |-> TRUE, v |-> List(Append(acc, r.v)), next |-> r.next + 1]
    ELSE ParseFail

ParseMembers(toks, i, acc) ==
    IF ~(Tok(toks, i) = "\"" /\ Tok(toks, i + 2) = "\"" /\ Tok(toks, i + 3) = ":")
    THEN ParseFail
    ELSE LET r == ParseValue(toks, i + 4)
             m == [k |-> toks[i + 1], v |-> r.v]
         IN  IF ~r.ok THEN ParseFail
             ELSE IF Tok(toks, r.next) = "," THEN ParseMembers(toks, r.next + 1, Append(acc, m))
             ELSE IF Tok(toks, r.next) = "}"
                  THEN [ok |-> TRUE, v |-> Dict(Append(acc, m)), next |-> r.next + 1]
             ELSE ParseFail

json_loads(text) ==
    LET r == ParseValue(text, 1) IN
    IF r.ok /\ r.next = Len(text) + 1 THEN r.v ELSE JSONDecodeError

-----------------------------------------------------------------------------
(* Responses of the language model and their parsing.                      *)

Whitespace == {" ", "\n"}

RECURSIVE lstrip(_)
lstrip(text) ==
    IF text # <<>> /\ Head(text) \in Whitespace THEN lstrip(Tail(text)) ELSE text

RECURSIVE rstrip(_)
rstrip(text) ==
    IF text # <<>> /\ text[Len(text)] \in Whitespace
    THEN rstrip(SubSeq(text, 1, Len(text) - 1))
    ELSE text

\* text.strip()
strip(text) == rstrip(lstrip(text))

\* text.replace(token, "")
replace(text, token) == SelectSeq(text, LAMBDA x : x # token)

\* the tokens of a Markdown code fence: three backticks, and three backticks
\* followed by the word json
Fence == "<fence>"
FenceJson == "<fence>json"

\* the text parse_json_response hands to json.loads: stripped, and with the
\* code fences removed when it starts with one
StripFences(text) ==
    LET stripped == strip(text) IN
    IF stripped # <<>> /\ Head(stripped) \in {Fence, FenceJson}
    THEN strip(replace(replace(stripped, FenceJson), Fence))
    ELSE stripped

\* json.loads of that text, or None when it raises
parse_json_response(text) ==
    LET parsed == json_loads(StripFences(text)) IN
    IF parsed = JSONDecodeError THEN None ELSE parsed

\* what client.chat.completions.create may give: a message with a content
\* text, a message with no content, or an exception
Content(text) == [kind |-> "text", text |-> text]
NoContent == [kind |-> "none", text |-> <<>>]
APIError == [kind |-> "raise", text |-> <<>>]

AnalysisJson == json_dumps(Dict(<<[k |-> "summary", v |-> Str("ok")]>>))

LLMTexts ==
    {AnalysisJson,
     <<"\n">> \o AnalysisJson \o <<" ">>,
     <<FenceJson, "\n">> \o AnalysisJson \o <<"\n", Fence>>,
     <<Fence, "\n">> \o AnalysisJson \o <<"\n", Fence>>,
     <<"Here", " ", FenceJson>> \o AnalysisJson \o <<Fence>>,
     <<"Sorry">>,
     <<"{", "\"", "summary", "\"", ":">>,
     <<"{", "}">>,
     <<"null">>,
     <<>>}

LLMResponses == {Content(text) : text \in LLMTexts} \cup {NoContent, APIError}

\* f"Error: {str(e)}"
ErrorText(e) == <<"Error: ", e>>

\* the steps of the process shown in the sidebar; the page labels them in
\* Korean (planning, execution, promotion, performance management)
steps == <<"planning", "execution", "promotion", "performance">>

\* st.session_state after init_session_state() in a new session
init_session_state ==
    [current_policy_id |-> None,
     current_analysis |-> None,
     generated_images |-> List(<<>>),
     video_prompts_3styles |-> List(<<>>),
     workflow_step |-> Str(steps[1]),
     show_results |-> Bool(FALSE),
     selected_category |-> Str(""),
     temp_selection |-> Str("")]

\* generate_policy_analysis has not been called
NotCalled == [pc |-> "idle", calls |-> 0, requests |-> 0, responses |-> <<>>,
              data |-> None, raw |-> <<>>]

-----------------------------------------------------------------------------
(* Inputs the callers may pass.                                            *)

\* (title, category, target_audience, description) of create_policy
PolicyInputs == {<<"air quality", "environment", "citizens", "monitoring">>}

StatusArgs == {"active", "draft"}

\* identifiers callers pass
PolicyIdArgs == 1..MaxRows

LimitArgs == (-1)..MaxRows

NotADate == <<Ord("T")>>

DateArgs == {strftime_ymd(d) : d \in Days} \cup {NotADate}

ContentTypes == {"analysis"}

ContentData == {Dict(<<[k |-> "steps", v |-> List(<<Str("a"), None>>)],
                       [k |-> "tags", v |-> Dict(<<>>)]>>)}

MetadataArgs == {None, Dict(<<>>), Dict(<<[k |-> "model", v |-> Str("gpt-4o")]>>)}

MediaTypes == {"image", ""}

MediaTypeArgs == {None, Str("image"), Str("")}

-----------------------------------------------------------------------------
(* SQL helpers.                                                            *)

AllTables == {"policies", "policy_contents", "policy_performance", "generated_media"}

RowOrders(n) == {f \in [1..n -> 1..n] : \A i, j \in 1..n : i # j => f[i] # f[j]}

\* ORDER BY created_at DESC: every order of the rows in which created_at
\* never increases; the order among equal created_at is left to the engine.
OrderByCreatedAtDesc(rows) ==
    LET n == Len(rows) IN
    {[i \in 1..n |-> rows[f[i]]] :
        f \in {g \in RowOrders(n) :
                 \A i, j \in 1..n :
                     i < j => TextCmp(rows[g[i]].created_at, rows[g[j]].created_at) >= 0}}


\* LIMIT that lets one row too many through.
Limit_OffByOne(rows, n) ==
    IF n < 0 \/ n + 1 >= Len(rows) THEN rows ELSE SubSeq(rows, 1, n + 1)

\* LIMIT n: the first n rows; a negative n is no limit.
Limit(rows, n) ==
    IF n < 0 \/ n >= Len(rows) THEN rows ELSE SubSeq(rows, 1, n)


\* a rowid allocation that hands the largest rowid out again
NextRowId_Reused(table) ==
    IF sqlite_sequence[table] = 0 THEN 1 ELSE sqlite_sequence[table]

\* INTEGER PRIMARY KEY AUTOINCREMENT: one more than the largest rowid ever used.
NextRowId(table) == sqlite_sequence[table] + 1

\* rows stored so far
RowCount == Len(policies) + Len(policy_contents) + Len(generated_media)

\* how a call ended: it returned a value, or an exception left it
Returned(v) == [raised |-> "", value |-> v]

Raised(exc) == [raised |-> exc, value |-> None]

Call(op, args, ret) == [op |-> op, args |-> args, ret |-> ret, raised |-> ""]

CallEnded(op, args, end) == [op |-> op, args |-> args, ret |-> end.value, raised |-> end.raised]

\* get_db without the try / finally: conn.close() only after a body that returned
get_db_NoFinally(end) ==
    LET connected == open_conns + 1
    IN  IF end.raised = "" THEN connected - 1 ELSE connected

\* with get_db() as conn: <body>, where the body ends in end (Returned or
\* Raised): sqlite3.connect opens a connection of its own, and the finally
\* closes it however the body ended.  The connections open afterwards.
get_db(end) ==
    LET connected == open_conns + 1
    IN  connected - 1

\* the row INSERT INTO policies adds: status 'draft', both timestamps now
NewPolicyRow(title, category, target_audience, description) ==
    LET now == isoformat(datetime_now) IN
    [id |-> NextRowId("policies"),
     title |-> title,
     category |-> category,
     target_audience |-> target_audience,
     description |-> description,
     status |-> "draft",
     created_at |-> now,
     updated_at |-> now]

\* the row INSERT INTO policy_contents adds
NewContentRow(policy_id, content_type, content_data, metadata) ==
    [id |-> NextRowId("policy_contents"),
     policy_id |-> policy_id,
     content_type |-> content_type,
     content_data |-> json_dumps(content_data),
     metadata |-> json_dumps(IF Truthy(metadata) THEN metadata ELSE Dict(<<>>)),
     created_at |-> isoformat(datetime_now)]

\* the row INSERT INTO generated_media adds: media_url is left NULL
NewMediaRow(policy_id, media_type, media_data, prompt, params) ==
    [id |-> NextRowId("generated_media"),
     policy_id |-> policy_id,
     media_type |-> media_type,
     media_url |-> SqlNull,
     media_data |-> media_data,
     prompt |-> prompt,
     generation_params |-> json_dumps(params),
     created_at |-> isoformat(datetime_now)]

-----------------------------------------------------------------------------
(* The state after the module is loaded and before init_database() runs    *)
(* on a fresh data/policies.db.                                            *)

Init ==
    /\ tables = {}
    /\ sqlite_sequence = [t \in AllTables |-> 0]
    /\ policies = <<>>
    /\ policy_contents = <<>>
    /\ generated_media = <<>>
    /\ clock = 0
    /\ last = Call("start", <<>>, None)
    /\ open_conns = 0
    /\ llm = NotCalled
    /\ session = init_session_state

\* Time passes.
Tick ==
    /\ clock < MaxClock
    /\ clock' = clock + 1
    /\ UNCHANGED <<db, last, open_conns, llm, session>>

\* DROP TABLE IF EXISTS and CREATE TABLE, four times.
init_database_DropsFirst ==
    /\ tables' = AllTables
    /\ sqlite_sequence' = [t \in AllTables |-> 0]
    /\ policies' = <<>>
    /\ policy_contents' = <<>>
    /\ generated_media' = <<>>
    /\ last' = Call("init_database", <<>>, None)
    /\ open_conns' = get_db(Returned(None))
    /\ UNCHANGED <<clock, llm, session>>

\* CREATE TABLE IF NOT EXISTS, four times.
init_database ==
    /\ tables' = tables \cup AllTables
    /\ last' = Call("init_database", <<>>, None)
    /\ open_conns' = get_db(Returned(None))
    /\ UNCHANGED <<sqlite_sequence, policies, policy_contents, generated_media, clock, llm, session>>


\* create_policy with title and category bound to each other's column
create_policy_SwappedColumns(title, category, target_audience, description) ==
    LET now == isoformat(datetime_now)
        id == sqlite_sequence["policies"] + 1
    IN  /\ "policies" \in tables
        /\ RowCount < MaxRows
        /\ policies' = Append(policies,
                              [id |-> id,
                               title |-> category,
                               category |-> title,
                               target_audience |-> target_audience,
                               description |-> description,
                               status |-> "draft",
                               created_at |-> now,
                               updated_at |-> now])
        /\ sqlite_sequence' = [sqlite_sequence EXCEPT !["policies"] = id]
        /\ last' = Call("create_policy", <<title, category, target_audience, description>>, id)
        /\ open_conns' = get_db(Returned(None))
        /\ UNCHANGED <<tables, policy_contents, generated_media, clock, llm, session>>

create_policy(title, category, target_audience, description) ==
    LET id == NextRowId("policies")
    IN  /\ "policies" \in tables
        /\ RowCount < MaxRows
        /\ policies' = Append(policies,
                              NewPolicyRow(title, category, target_audience, description))
        /\ sqlite_sequence' = [sqlite_sequence EXCEPT !["policies"] = id]
        /\ last' = Call("create_policy", <<title, category, target_audience, description>>, id)
        /\ open_conns' = get_db(Returned(None))
        /\ UNCHANGED <<tables, policy_contents, generated_media, clock, llm, session>>


\* update_policy_status that refreshes updated_at and leaves the status
update_policy_status_KeepsStatus(policy_id, status) ==
    LET now == isoformat(datetime_now) IN
    /\ "policies" \in tables
    /\ policies' = [i \in DOMAIN policies |->
                       IF policies[i].id = policy_id
                       THEN [policies[i] EXCEPT !.updated_at = now]
                       ELSE policies[i]]
    /\ last' = Call("update_policy_status", <<policy_id, status>>, None)
    /\ open_conns' = get_db(Returned(None))
    /\ UNCHANGED <<tables, sqlite_sequence, policy_contents, generated_media, clock, llm, session>>

\* update_policy_status that stamps created_at as well
update_policy_status_StampsCreated(policy_id, status) ==
    LET now == isoformat(datetime_now) IN
    /\ "policies" \in tables
    /\ policies' = [i \in DOMAIN policies |->
                       IF policies[i].id = policy_id
                       THEN [policies[i] EXCEPT !.status = status,
                                                !.created_at = now,
                                                !.updated_at = now]
                       ELSE policies[i]]
    /\ last' = Call("update_policy_status", <<policy_id, status>>, None)
    /\ open_conns' = get_db(Returned(None))
    /\ UNCHANGED <<tables, sqlite_sequence, policy_contents, generated_media, clock, llm, session>>

\* UPDATE policies SET status = ?, updated_at = ?: the WHERE left out
update_policy_status_NoWhere(policy_id, status) ==
    LET now == isoformat(datetime_now) IN
    /\ "policies" \in tables
    /\ policies' = [i \in DOMAIN policies |->
                       [policies[i] EXCEPT !.status = status, !.updated_at = now]]
    /\ last' = Call("update_policy_status", <<policy_id, status>>, None)
    /\ open_conns' = get_db(Returned(None))
    /\ UNCHANGED <<tables, sqlite_sequence, policy_contents, generated_media, clock, llm, session>>

update_policy_status(policy_id, status) ==
    LET now == isoformat(datetime_now) IN
    /\ "policies" \in tables
    /\ policies' = [i \in DOMAIN policies |->
                       IF policies[i].id = policy_id
                       THEN [policies[i] EXCEPT !.status = status, !.updated_at = now]
                       ELSE policies[i]]
    /\ last' = Call("update_policy_status", <<policy_id, status>>, None)
    /\ open_conns' = get_db(Returned(None))
    /\ UNCHANGED <<tables, sqlite_sequence, policy_contents, generated_media, clock, llm, session>>


\* save_policy_content that encodes the metadata as given, None included
save_policy_content_RawMetadata(policy_id, content_type, content_data, metadata) ==
    LET now == isoformat(datetime_now)
        id == sqlite_sequence["policy_contents"] + 1
    IN  /\ "policy_contents" \in tables
        /\ RowCount < MaxRows
        /\ policy_contents' =
               Append(policy_contents,
                      [id |-> id,
                       policy_id |-> policy_id,
                       content_type |-> content_type,
                       content_data |-> json_dumps(content_data),
                       metadata |-> json_dumps(metadata),
                       created_at |-> now])
        /\ sqlite_sequence' = [sqlite_sequence EXCEPT !["policy_contents"] = id]
        /\ last' = Call("save_policy_content",
                        <<policy_id, content_type, content_data, metadata>>, None)
        /\ open_conns' = get_db(Returned(None))
        /\ UNCHANGED <<tables, policies, generated_media, clock, llm, session>>

\* save_policy_content on a connection with PRAGMA foreign_keys = ON
save_policy_content_ForeignKeysOn(policy_id, content_type, content_data, metadata) ==
    LET now == isoformat(datetime_now)
        id == sqlite_sequence["policy_contents"] + 1
    IN  /\ "policy_contents" \in tables
        /\ RowCount < MaxRows
        /\ IF \A i \in DOMAIN policies : policies[i].id # policy_id
           THEN /\ last' = CallEnded("save_policy_content",
                                     <<policy_id, content_type, content_data, metadata>>,
                                     Raised("IntegrityError"))
                /\ open_conns' = get_db(Raised("IntegrityError"))
                /\ UNCHANGED <<db, clock, llm, session>>
           ELSE /\ policy_contents' =
                       Append(policy_contents,
                              [id |-> id,
                               policy_id |-> policy_id,
                               content_type |-> content_type,
                               content_data |-> json_dumps(content_data),
                               metadata |-> json_dumps(IF Truthy(metadata) THEN metadata
                                                       ELSE Dict(<<>>)),
                               created_at |-> now])
                /\ sqlite_sequence' = [sqlite_sequence EXCEPT !["policy_contents"] = id]
                /\ last' = Call("save_policy_content",
                                <<policy_id, content_type, content_data, metadata>>, None)
                /\ open_conns' = get_db(Returned(None))
                /\ UNCHANGED <<tables, policies, generated_media, clock, llm, session>>

save_policy_content(policy_id, content_type, content_data, metadata) ==
    LET id == NextRowId("policy_contents")
    IN  /\ "policy_contents" \in tables
        /\ RowCount < MaxRows
        /\ policy_contents' =
               Append(policy_contents,
                      NewContentRow(policy_id, content_type, content_data, metadata))
        /\ sqlite_sequence' = [sqlite_sequence EXCEPT !["policy_contents"] = id]
        /\ last' = Call("save_policy_content",
                        <<policy_id, content_type, content_data, metadata>>, None)
        /\ open_conns' = get_db(Returned(None))
        /\ UNCHANGED <<tables, policies, generated_media, clock, llm, session>>


\* save_generated_media as INSERT OR REPLACE keyed by policy and media type
save_generated_media_ReplacesSameType(policy_id, media_type, media_data, prompt, params) ==
    LET now == isoformat(datetime_now)
        id == sqlite_sequence["generated_media"] + 1
        kept == SelectSeq(generated_media,
                          LAMBDA r : ~(r.policy_id = policy_id /\ r.media_type = media_type))
    IN  /\ "generated_media" \in tables
        /\ Len(policies) + Len(policy_contents) + Len(kept) < MaxRows
        /\ generated_media' =
               Append(kept,
                      [id |-> id,
                       policy_id |-> policy_id,
                       media_type |-> media_type,
                       media_url |-> SqlNull,
                       media_data |-> media_data,
                       prompt |-> prompt,
                       generation_params |-> json_dumps(params),
                       created_at |-> now])
        /\ sqlite_sequence' = [sqlite_sequence EXCEPT !["generated_media"] = id]
        /\ last' = Call("save_generated_media",
                        <<policy_id, media_type, media_data, prompt, params>>, None)
        /\ open_conns' = get_db(Returned(None))
        /\ UNCHANGED <<tables, policies, policy_contents, clock, llm, session>>

save_generated_media(policy_id, media_type, media_data, prompt, params) ==
    LET id == NextRowId("generated_media")
    IN  /\ "generated_media" \in tables
        /\ RowCount < MaxRows
        /\ generated_media' =
               Append(generated_media,
                      NewMediaRow(policy_id, media_type, media_data, prompt, params))
        /\ sqlite_sequence' = [sqlite_sequence EXCEPT !["generated_media"] = id]
        /\ last' = Call("save_generated_media",
                        <<policy_id, media_type, media_data, prompt, params>>, None)
        /\ open_conns' = get_db(Returned(None))
        /\ UNCHANGED <<tables, policies, policy_contents, clock, llm, session>>

\* SELECT * FROM policies, fetchone(): the WHERE left out
PolicyById_NoWhere(rows, policy_id) ==
    IF rows # <<>> THEN Head(rows) ELSE None

\* SELECT * FROM policies WHERE id = ?, fetchone(): the row, or None.
PolicyById(rows, policy_id) ==
    LET hit == SelectSeq(rows, LAMBDA r : r.id = policy_id) IN
    IF hit # <<>> THEN Head(hit) ELSE None

get_policy(policy_id) ==
    /\ "policies" \in tables
    /\ last' = Call("get_policy", <<policy_id>>, PolicyById(policies, policy_id))
    /\ open_conns' = get_db(Returned(None))
    /\ UNCHANGED <<db, clock, llm, session>>

\* SELECT * FROM policies ORDER BY created_at DESC LIMIT ?: the lists the
\* query may return
AllPoliciesRows(limit) == {Limit(rows, limit) : rows \in OrderByCreatedAtDesc(policies)}

get_all_policies(limit) ==
    /\ "policies" \in tables
    /\ \E ret \in AllPoliciesRows(limit) : last' = Call("get_all_policies", <<limit>>, ret)
    /\ open_conns' = get_db(Returned(None))
    /\ UNCHANGED <<db, clock, llm, session>>

\* the loop over the rows: json.loads applied to content_data and metadata of
\* each, unless a row that does not parse raises out of the loop
DecodeContents(rows) ==
    LET out == [i \in DOMAIN rows |->
                   [rows[i] EXCEPT
                       !.content_data = json_loads(rows[i].content_data),
                       \* a NULL or empty metadata text is false
                       !.metadata = IF rows[i].metadata # <<>>
                                    THEN json_loads(rows[i].metadata)
                                    ELSE Dict(<<>>)]]
    IN  IF \E i \in DOMAIN out :
               out[i].content_data = JSONDecodeError \/ out[i].metadata = JSONDecodeError
        THEN Raised("JSONDecodeError")
        ELSE Returned(out)

\* the query and the loop over a table that holds rows: the decoded rows of
\* the policy, newest first, in each order the query may give
ContentsRowsOf(rows, policy_id) ==
    {DecodeContents(rs) :
        rs \in OrderByCreatedAtDesc(SelectSeq(rows, LAMBDA r : r.policy_id = policy_id))}

\* SELECT * FROM policy_contents ORDER BY created_at DESC: the WHERE left out
PolicyContentsRows_AllPolicies(policy_id) ==
    {DecodeContents(rows) : rows \in OrderByCreatedAtDesc(policy_contents)}

\* how get_policy_contents may end
PolicyContentsRows(policy_id) == ContentsRowsOf(policy_contents, policy_id)

get_policy_contents(policy_id) ==
    /\ "policy_contents" \in tables
    /\ \E ret \in PolicyContentsRows(policy_id) :
           /\ last' = CallEnded("get_policy_contents", <<policy_id>>, ret)
           /\ open_conns' = get_db(ret)
    /\ UNCHANGED <<db, clock, llm, session>>

DecodeMedia(rows) ==
    LET out == [i \in DOMAIN rows |->
                   [rows[i] EXCEPT
                       !.generation_params =
                           IF rows[i].generation_params # <<>>
                           THEN json_loads(rows[i].generation_params)
                           ELSE Dict(<<>>)]]
    IN  IF \E i \in DOMAIN out : out[i].generation_params = JSONDecodeError
        THEN Raised("JSONDecodeError")
        ELSE Returned(out)

\* how get_generated_media may end
GeneratedMediaRows(policy_id, media_type) ==
    {DecodeMedia(rows) :
        rows \in OrderByCreatedAtDesc(
                     IF Truthy(media_type)
                     THEN SelectSeq(generated_media,
                                    LAMBDA r : r.policy_id = policy_id
                                               /\ r.media_type = media_type.s)
                     ELSE SelectSeq(generated_media, LAMBDA r : r.policy_id = policy_id))}

get_generated_media(policy_id, media_type) ==
    /\ "generated_media" \in tables
    /\ \E ret \in GeneratedMediaRows(policy_id, media_type) :
           /\ last' = CallEnded("get_generated_media", <<policy_id, media_type>>, ret)
           /\ open_conns' = get_db(ret)
    /\ UNCHANGED <<db, clock, llm, session>>


\* WHERE created_at = ?: the whole timestamp compared with the date
PoliciesByDateRows_WholeTimestamp(date_str) ==
    OrderByCreatedAtDesc(SelectSeq(policies, LAMBDA r : SqlEq(r.created_at, date_str)))

\* WHERE date(created_at) = date(?) ORDER BY created_at DESC
PoliciesByDateRows(date_str) ==
    OrderByCreatedAtDesc(
        SelectSeq(policies,
                  LAMBDA r : SqlEq(sqlite_date(r.created_at), sqlite_date(date_str))))

get_policies_by_date(date_str) ==
    /\ "policies" \in tables
    /\ \E ret \in PoliciesByDateRows(date_str) :
           last' = Call("get_policies_by_date", <<date_str>>, ret)
    /\ open_conns' = get_db(Returned(None))
    /\ UNCHANGED <<db, clock, llm, session>>

\* WHERE date(created_at) BETWEEN date(?) AND date(?) ORDER BY created_at DESC
PoliciesByDateRangeRows(start_date, end_date) ==
    OrderByCreatedAtDesc(
        SelectSeq(policies,
                  LAMBDA r : SqlBetween(sqlite_date(r.created_at),
                                        sqlite_date(start_date),
                                        sqlite_date(end_date))))

get_policies_by_date_range(start_date, end_date) ==
    /\ "policies" \in tables
    /\ \E ret \in PoliciesByDateRangeRows(start_date, end_date) :
           last' = Call("get_policies_by_date_range", <<start_date, end_date>>, ret)
    /\ open_conns' = get_db(Returned(None))
    /\ UNCHANGED <<db, clock, llm, session>>

Next ==
    \/ Tick
    \/ init_database
    \/ \E a \in PolicyInputs : create_policy(a[1], a[2], a[3], a[4])
    \/ \E id \in PolicyIdArgs, s \in StatusArgs : update_policy_status(id, s)
    \/ \E id \in PolicyIdArgs, ty \in ContentTypes, d \in ContentData, m \in MetadataArgs :
           save_policy_content(id, ty, d, m)
    \/ \E id \in PolicyIdArgs, ty \in MediaTypes :
           save_generated_media(id, ty, "png", "a street", Dict(<<[k |-> "size", v |-> Str("1024")]>>))
    \/ \E id \in PolicyIdArgs : get_policy(id)
    \/ \E n \in LimitArgs : get_all_policies(n)
    \/ \E id \in PolicyIdArgs : get_policy_contents(id)
    \/ \E id \in PolicyIdArgs, ty \in MediaTypeArgs : get_generated_media(id, ty)
    \/ \E d \in DateArgs : get_policies_by_date(d)
    \/ \E a, b \in DateArgs : get_policies_by_date_range(a, b)

Spec == Init /\ [][Next]_vars

\* The life of a policy row: creation, status updates, lookup by id.
NextPolicies ==
    \/ Tick
    \/ init_database
    \/ \E a \in PolicyInputs : create_policy(a[1], a[2], a[3], a[4])
    \/ \E id \in PolicyIdArgs, s \in StatusArgs : update_policy_status(id, s)
    \/ \E id \in PolicyIdArgs : get_policy(id)

SpecPolicies == Init /\ [][NextPolicies]_vars

\* The listing queries over the policies created so far.  (No query reads
\* status or updated_at, the only columns update_policy_status writes.)
NextQueries ==
    \/ Tick
    \/ init_database
    \/ \E a \in PolicyInputs : create_policy(a[1], a[2], a[3], a[4])
    \/ \E n \in LimitArgs : get_all_policies(n)
    \/ \E d \in DateArgs : get_policies_by_date(d)
    \/ \E a, b \in DateArgs : get_policies_by_date_range(a, b)

SpecQueries == Init /\ [][NextQueries]_vars

\* The content repository alone.
NextContents ==
    \/ Tick
    \/ init_database
    \/ \E id \in PolicyIdArgs, ty \in ContentTypes, d \in ContentData, m \in MetadataArgs :
           save_policy_content(id, ty, d, m)
    \/ \E id \in PolicyIdArgs : get_policy_contents(id)

SpecContents == Init /\ [][NextContents]_vars

\* The content repository beside the policies: contents of stored policies
\* and of identifiers no policy has.
NextPolicyContents ==
    \/ Tick
    \/ init_database
    \/ \E a \in PolicyInputs : create_policy(a[1], a[2], a[3], a[4])
    \/ \E id \in PolicyIdArgs, ty \in ContentTypes, d \in ContentData, m \in MetadataArgs :
           save_policy_content(id, ty, d, m)
    \/ \E id \in PolicyIdArgs : get_policy_contents(id)

SpecPolicyContents == Init /\ [][NextPolicyContents]_vars

\* Texts that are no JSON document: a document cut short, and no document at all.
CorruptTexts == {<<"{", "\"", "steps", "\"">>, <<"}">>}

\* A row put into policy_contents by another writer of data/policies.db: the
\* columns are TEXT NOT NULL and take any text, JSON or not.
foreign_insert_content(policy_id, content_data, metadata) ==
    LET now == isoformat(datetime_now)
        id == NextRowId("policy_contents")
    IN  /\ "policy_contents" \in tables
        /\ RowCount < MaxRows
        /\ policy_contents' =
               Append(policy_contents,
                      [id |-> id,
                       policy_id |-> policy_id,
                       content_type |-> "analysis",
                       content_data |-> content_data,
                       metadata |-> metadata,
                       created_at |-> now])
        /\ sqlite_sequence' = [sqlite_sequence EXCEPT !["policy_contents"] = id]
        /\ last' = Call("foreign_insert_content", <<policy_id, content_data, metadata>>, None)
        /\ UNCHANGED <<tables, policies, generated_media, clock, open_conns, llm, session>>

\* The content repository over a table that may hold rows it did not write.
NextForeignRows ==
    \/ Tick
    \/ init_database
    \/ \E id \in PolicyIdArgs, ty \in ContentTypes, d \in ContentData, m \in MetadataArgs :
           save_policy_content(id, ty, d, m)
    \/ \E id \in PolicyIdArgs, bad \in CorruptTexts :
           \/ foreign_insert_content(id, bad, json_dumps(Dict(<<>>)))
           \/ \E d \in ContentData : foreign_insert_content(id, json_dumps(d), bad)
    \/ \E id \in PolicyIdArgs : get_policy_contents(id)

SpecForeignRows == Init /\ [][NextForeignRows]_vars

\* Every repository operation, over a database file another writer shares.
NextSharedFile ==
    \/ Next
    \/ \E id \in PolicyIdArgs, bad \in CorruptTexts :
           foreign_insert_content(id, bad, json_dumps(Dict(<<>>)))

SpecSharedFile == Init /\ [][NextSharedFile]_vars

\* generate_policy_analysis is called: the prompt is built and the first
\* request is sent.
generate_policy_analysis ==
    /\ llm.pc \in {"idle", "returned"}
    /\ llm.calls < MaxCalls
    /\ llm' = [pc |-> "first_request", calls |-> llm.calls + 1, requests |-> 1,
               responses |-> <<>>, data |-> None, raw |-> <<>>]
    /\ UNCHANGED <<db, clock, last, open_conns, session>>

\* how the function returns when the request or the parsing of its response
\* raised: except Exception as e: return None, f"Error: {str(e)}"
ReturnsError(call, r) ==
    [call EXCEPT !.pc = "returned",
                 !.data = None,
                 !.raw = ErrorText(IF r.kind = "raise" THEN "APIError" ELSE "AttributeError")]

\* The first request ends: a response that parses to a true value is
\* returned, any other response is followed by the re-ask.
first_response(r) ==
    /\ llm.pc = "first_request"
    /\ llm' = LET got == [llm EXCEPT !.responses = Append(@, r)]
                  parsed_data == parse_json_response(r.text)
              IN  IF r.kind # "text" THEN ReturnsError(got, r)
                  ELSE IF Truthy(parsed_data)
                       THEN [got EXCEPT !.pc = "returned", !.data = parsed_data, !.raw = r.text]
                       ELSE [got EXCEPT !.pc = "retry_request", !.requests = @ + 1]
    /\ UNCHANGED <<db, clock, last, open_conns, session>>

\* a re-ask that is repeated while the response does not parse
retry_response_AsksAgain(r) ==
    /\ llm.pc = "retry_request"
    /\ llm' = LET got == [llm EXCEPT !.responses = Append(@, r)]
                  retry_parsed == parse_json_response(r.text)
              IN  IF r.kind # "text" THEN ReturnsError(got, r)
                  ELSE IF retry_parsed = None
                       THEN [got EXCEPT !.requests = @ + 1]
                       ELSE [got EXCEPT !.pc = "returned", !.data = retry_parsed,
                                        !.raw = r.text]
    /\ UNCHANGED <<db, clock, last, open_conns, session>>

\* The re-ask ends: whatever its response parses to is returned, None when
\* it does not parse.
retry_response(r) ==
    /\ llm.pc = "retry_request"
    /\ llm' = LET got == [llm EXCEPT !.responses = Append(@, r)]
                  retry_parsed == parse_json_response(r.text)
              IN  IF r.kind # "text" THEN ReturnsError(got, r)
                  ELSE [got EXCEPT !.pc = "returned", !.data = retry_parsed, !.raw = r.text]
    /\ UNCHANGED <<db, clock, last, open_conns, session>>

\* The calls of generate_policy_analysis, one after the other.
NextAnalysis ==
    \/ generate_policy_analysis
    \/ \E r \in LLMResponses : first_response(r)
    \/ \E r \in LLMResponses : retry_response(r)

SpecAnalysis == Init /\ [][NextAnalysis]_vars

-----------------------------------------------------------------------------
(* The page: the handlers of its buttons over st.session_state and the     *)
(* store.  Every run of the script calls init_session_state() and          *)
(* init_database() before it reaches a handler.                            *)

\* the form of the first tab: (title, category, target_audience, description),
\* filled in, and with the title left empty
FormInputs == PolicyInputs \cup {<<"", "environment", "citizens", "monitoring">>}

\* analyses the language model may give: one with the brief of an image, one without
PageAnalyses ==
    {Dict(<<[k |-> "content_briefs",
             v |-> Dict(<<[k |-> "image_brief_1",
                                  v |-> Dict(<<[k |-> "concept", v |-> Str("a street")]>>)],
                                 [k |-> "video_brief",
                                  v |-> Dict(<<[k |-> "narrative_arc", v |-> Str("a day")]>>)]>>)]>>),
     Dict(<<[k |-> "summary", v |-> Str("ok")]>>)}

PageResponses ==
    {Content(json_dumps(a)) : a \in PageAnalyses}
        \cup {Content(<<"Sorry">>), Content(<<"{", "}">>), APIError}

\* key in d, for a dict d
HasKey(d, key) == d.t = "dict" /\ \E i \in DOMAIN d.items : d.items[i].k = key

\* d[key]
Item(d, key) == d.items[CHOOSE i \in DOMAIN d.items : d.items[i].k = key].v

\* the first value generate_policy_analysis returns when its requests are
\* answered by r1 and, if it re-asks, by r2
AnalysisReturn(r1, r2) ==
    IF r1.kind # "text" THEN None
    ELSE IF Truthy(parse_json_response(r1.text)) THEN parse_json_response(r1.text)
    ELSE IF r2.kind # "text" THEN None
    ELSE parse_json_response(r2.text)

\* the store is full: the handler's inserts would not fit the bound
Fits(inserts) == RowCount + inserts <= MaxSessionRows

\* The top of the first tab in a script run whose category box holds
\* policy_category: a pending selection is taken over, then the box is.
CategoryBox(state, policy_category) ==
    LET taken == IF Truthy(state.temp_selection)
                 THEN [state EXCEPT !.selected_category = state.temp_selection,
                                    !.temp_selection = Str("")]
                 ELSE state
    IN  IF Str(policy_category) # taken.selected_category
        THEN [taken EXCEPT !.selected_category = Str(policy_category)]
        ELSE taken

\* The save button of the first tab.
save_policy_button(form) ==
    LET row == NewPolicyRow(form[1], form[2], form[3], form[4]) IN
    /\ tables' = tables \cup AllTables
    /\ IF form[1] = "" \/ form[4] = ""
       THEN /\ UNCHANGED <<policies, sqlite_sequence>>
            /\ session' = CategoryBox(session, form[2])
       ELSE /\ Fits(1)
            /\ policies' = Append(policies, row)
            /\ sqlite_sequence' = [sqlite_sequence EXCEPT !["policies"] = row.id]
            /\ session' = [CategoryBox(session, form[2]) EXCEPT
                              !.current_policy_id = PyInt(row.id),
                              !.workflow_step = Str(steps[2])]
    /\ last' = Call("save_policy_button", form, None)
    /\ open_conns' = get_db(Returned(None))
    /\ UNCHANGED <<policy_contents, generated_media, clock, llm>>

\* An analysis button that asks the language model first and creates the
\* policy only for an analysis it keeps.
ai_analysis_button_CreatesOnSuccess(form, r1, r2) ==
    LET creates == ~Truthy(session.current_policy_id) /\ Truthy(AnalysisReturn(r1, r2))
        row == NewPolicyRow(form[1], form[2], form[3], form[4])
        policy_id == IF creates THEN PyInt(row.id) ELSE session.current_policy_id
        analysis == AnalysisReturn(r1, r2)
        content == NewContentRow(policy_id.items[1], "analysis", analysis, None)
    IN  /\ tables' = tables \cup AllTables
        /\ IF form[1] = "" \/ form[4] = ""
           THEN /\ UNCHANGED <<policies, policy_contents, sqlite_sequence>>
                /\ session' = CategoryBox(session, form[2])
                /\ last' = Call("ai_analysis_button", form, None)
           ELSE /\ Fits((IF creates THEN 1 ELSE 0) + (IF Truthy(analysis) THEN 1 ELSE 0))
                /\ policies' = IF creates THEN Append(policies, row) ELSE policies
                /\ policy_contents' = IF Truthy(analysis)
                                      THEN Append(policy_contents, content)
                                      ELSE policy_contents
                /\ sqlite_sequence' =
                       [sqlite_sequence EXCEPT
                           !["policies"] = IF creates THEN row.id ELSE @,
                           !["policy_contents"] = IF Truthy(analysis) THEN content.id ELSE @]
                /\ session' =
                       IF Truthy(analysis)
                       THEN [CategoryBox(session, form[2]) EXCEPT
                                            !.current_policy_id = policy_id,
                                            !.current_analysis = analysis,
                                            !.show_results = Bool(TRUE),
                                            !.workflow_step = Str(steps[3])]
                       ELSE CategoryBox(session, form[2])
                /\ last' = Call("ai_analysis_button", form, analysis)
        /\ open_conns' = get_db(Returned(None))
        /\ UNCHANGED <<generated_media, clock, llm>>

\* The analysis button of the first tab: a policy is created when the session
\* has none, the language model is asked, and an analysis that is true is kept
\* in the session and saved.  last.ret tells what the language model call gave.
ai_analysis_button(form, r1, r2) ==
    LET creates == ~Truthy(session.current_policy_id)
        row == NewPolicyRow(form[1], form[2], form[3], form[4])
        policy_id == IF creates THEN PyInt(row.id) ELSE session.current_policy_id
        analysis == AnalysisReturn(r1, r2)
        content == NewContentRow(policy_id.items[1], "analysis", analysis, None)
    IN  /\ tables' = tables \cup AllTables
        /\ IF form[1] = "" \/ form[4] = ""
           THEN /\ UNCHANGED <<policies, policy_contents, sqlite_sequence>>
                /\ session' = CategoryBox(session, form[2])
                /\ last' = Call("ai_analysis_button", form, None)
           ELSE /\ Fits((IF creates THEN 1 ELSE 0) + (IF Truthy(analysis) THEN 1 ELSE 0))
                /\ policies' = IF creates THEN Append(policies, row) ELSE policies
                /\ policy_contents' = IF Truthy(analysis)
                                      THEN Append(policy_contents, content)
                                      ELSE policy_contents
                /\ sqlite_sequence' =
                       [sqlite_sequence EXCEPT
                           !["policies"] = IF creates THEN row.id ELSE @,
                           !["policy_contents"] = IF Truthy(analysis) THEN content.id ELSE @]
                /\ session' =
                       IF Truthy(analysis)
                       THEN [CategoryBox(session, form[2]) EXCEPT
                                            !.current_policy_id = policy_id,
                                            !.current_analysis = analysis,
                                            !.show_results = Bool(TRUE),
                                            !.workflow_step = Str(steps[3])]
                       ELSE [CategoryBox(session, form[2]) EXCEPT
                                            !.current_policy_id = policy_id]
                /\ last' = Call("ai_analysis_button", form, analysis)
        /\ open_conns' = get_db(Returned(None))
        /\ UNCHANGED <<generated_media, clock, llm>>

\* the value the loop over contents leaves in current_analysis: each row of
\* type analysis overwrites it in turn
LoadedAnalysis(current_analysis, contents) ==
    LET analyses == SelectSeq(contents, LAMBDA c : c.content_type = "analysis") IN
    IF analyses = <<>> THEN current_analysis ELSE analyses[Len(analyses)].content_data

\* the entries the loop over media appends to generated_images
LoadedImages(media) ==
    LET images == SelectSeq(media, LAMBDA m : m.media_type = "image" /\ m.media_data # "") IN
    List([i \in DOMAIN images |->
             Dict(<<[k |-> "image", v |-> Str(images[i].media_data)],
                    [k |-> "bytes", v |-> Str(images[i].media_data)],
                    [k |-> "brief", v |-> Str("loaded")]>>)])

\* The load button of a policy the sidebar lists.  A listing that raises ends
\* the script run with what was assigned before it.
load_button(policy) ==
    /\ tables' = tables \cup AllTables
    /\ \E contents \in ContentsRowsOf(policy_contents, policy.id),
          media \in GeneratedMediaRows(policy.id, None) :
           session' =
               IF contents.raised # ""
               THEN [session EXCEPT !.current_policy_id = PyInt(policy.id)]
               ELSE IF media.raised # ""
               THEN [session EXCEPT
                        !.current_policy_id = PyInt(policy.id),
                        !.current_analysis = LoadedAnalysis(@, contents.value)]
               ELSE [session EXCEPT
                        !.current_policy_id = PyInt(policy.id),
                        !.current_analysis = LoadedAnalysis(@, contents.value),
                        !.generated_images = LoadedImages(media.value)]
    /\ last' = Call("load_button", <<policy.id>>, None)
    /\ open_conns' = get_db(Returned(None))
    /\ UNCHANGED <<sqlite_sequence, policies, policy_contents, generated_media, clock, llm>>

\* the keys the new-policy button loops over, and their characters
ResetKeys == {"current_policy_id", "current_analysis", "generated_images",
              "video_prompts_3styles", "selected_category", "temp_selection"}

KeyChars ==
    [current_policy_id |->
         <<"c", "u", "r", "r", "e", "n", "t", "_", "p", "o", "l", "i", "c", "y", "_", "i", "d">>,
     current_analysis |->
         <<"c", "u", "r", "r", "e", "n", "t", "_", "a", "n", "a", "l", "y", "s", "i", "s">>,
     generated_images |->
         <<"g", "e", "n", "e", "r", "a", "t", "e", "d", "_", "i", "m", "a", "g", "e", "s">>,
     video_prompts_3styles |->
         <<"v", "i", "d", "e", "o", "_", "p", "r", "o", "m", "p", "t", "s", "_", "3", "s", "t", "y", "l", "e", "s">>,
     selected_category |->
         <<"s", "e", "l", "e", "c", "t", "e", "d", "_", "c", "a", "t", "e", "g", "o", "r", "y">>,
     temp_selection |->
         <<"t", "e", "m", "p", "_", "s", "e", "l", "e", "c", "t", "i", "o", "n">>]

\* word in text, for two strings
Contains(text, word) ==
    \E i \in 1..(Len(text) - Len(word) + 1) : SubSeq(text, i, i + Len(word) - 1) = word

\* A reset value that knows lists and None only.
ResetValue_NoStrings(key) ==
    IF Contains(KeyChars[key], <<"i", "m", "a", "g", "e", "s">>)
           \/ Contains(KeyChars[key], <<"p", "r", "o", "m", "p", "t", "s">>)
    THEN List(<<>>)
    ELSE None

\* [] if "images" in key or "prompts" in key
\* else ("" if "category" in key or "selection" in key else None)
ResetValue(key) ==
    IF Contains(KeyChars[key], <<"i", "m", "a", "g", "e", "s">>)
           \/ Contains(KeyChars[key], <<"p", "r", "o", "m", "p", "t", "s">>)
    THEN List(<<>>)
    ELSE IF Contains(KeyChars[key], <<"c", "a", "t", "e", "g", "o", "r", "y">>)
                \/ Contains(KeyChars[key], <<"s", "e", "l", "e", "c", "t", "i", "o", "n">>)
         THEN Str("")
         ELSE None

\* A new-policy button whose loop leaves current_analysis out.
new_policy_button_KeepsAnalysis ==
    /\ tables' = tables \cup AllTables
    /\ session' = [key \in DOMAIN session |->
                       IF key = "current_analysis" THEN session[key]
                       ELSE IF key \in ResetKeys THEN ResetValue(key)
                       ELSE IF key = "workflow_step" THEN Str(steps[1])
                       ELSE Bool(FALSE)]
    /\ last' = Call("new_policy_button", <<session>>, None)
    /\ open_conns' = get_db(Returned(None))
    /\ UNCHANGED <<sqlite_sequence, policies, policy_contents, generated_media, clock, llm>>

\* The new-policy button of the sidebar.  last.args holds the session it was
\* pressed in.
new_policy_button ==
    /\ tables' = tables \cup AllTables
    /\ session' = [key \in DOMAIN session |->
                       IF key \in ResetKeys THEN ResetValue(key)
                       ELSE IF key = "workflow_step" THEN Str(steps[1])
                       ELSE Bool(FALSE)]
    /\ last' = Call("new_policy_button", <<session>>, None)
    /\ open_conns' = get_db(Returned(None))
    /\ UNCHANGED <<sqlite_sequence, policies, policy_contents, generated_media, clock, llm>>

\* The page after its first script run: init_session_state and init_database
\* have run on a new database file.
InitPage ==
    /\ tables = AllTables
    /\ sqlite_sequence = [t \in AllTables |-> 0]
    /\ policies = <<>>
    /\ policy_contents = <<>>
    /\ generated_media = <<>>
    /\ clock = 0
    /\ last = Call("start", <<>>, None)
    /\ open_conns = 0
    /\ llm = NotCalled
    /\ session = init_session_state

\* The page with the form, the analysis and the saved policies.
NextPage ==
    \/ Tick
    \/ \E form \in FormInputs : save_policy_button(form)
    \/ \E form \in FormInputs, r1, r2 \in PageResponses : ai_analysis_button(form, r1, r2)
    \/ \E i \in DOMAIN policies : load_button(policies[i])
    \/ new_policy_button

SpecPage == InitPage /\ [][NextPage]_vars

\* brief.get(key, "")
Get(brief, key) == IF HasKey(brief, key) THEN Item(brief, key).s ELSE ""

\* the characters an f-string puts in for a str
Text(string) == IF string = "" THEN <<>> ELSE <<string>>

DEFAULT_IMAGE_STYLE == <<"\n", "Professional documentary photography, ultra-realistic, photojournalistic style.", "\n">>

\* generate_image_prompt without a style override
generate_image_prompt(brief) ==
    strip(<<"\n">> \o Text(Get(brief, "concept")) \o
          <<"\n", "\n", "Scene description:", " ">> \o Text(Get(brief, "scene_description")) \o
          <<"\n", "\n", "Visual style:", " ">> \o Text(Get(brief, "visual_style")) \o
          <<"\n", "\n">> \o DEFAULT_IMAGE_STYLE \o
          <<"\n", "\n", "Key message to convey:", " ">> \o Text(Get(brief, "key_message")) \o
          <<"\n", "\n", "Important: Create realistic Korean people with natural, undistorted facial features.", "\n">>)

\* what generate_policy_image may return: no image, or the bytes of one
ImageResults == {None, Str("png")}

\* the image tab shows its buttons
ImageTabUsable ==
    Truthy(session.current_analysis) /\ HasKey(session.current_analysis, "content_briefs")

\* An image button of the third tab, for the brief image_brief_1 or
\* image_brief_2.  last.ret tells what the image generation gave.
image_button(brief_key, result) ==
    LET briefs == Item(session.current_analysis, "content_briefs")
        size == "1024x1024"
        quality == "standard"
        image == Dict(<<[k |-> "image", v |-> result],
                        [k |-> "bytes", v |-> result],
                        [k |-> "brief", v |-> Str(brief_key)]>>)
        saves == HasKey(briefs, brief_key) /\ Truthy(result)
                     /\ Truthy(session.current_policy_id)
        row == NewMediaRow(session.current_policy_id.items[1], "image", result.s,
                           generate_image_prompt(Item(briefs, brief_key)),
                           Dict(<<[k |-> "size", v |-> Str(size)],
                                  [k |-> "quality", v |-> Str(quality)]>>))
    IN  /\ ImageTabUsable
        /\ tables' = tables \cup AllTables
        /\ IF HasKey(briefs, brief_key) /\ Truthy(result)
           THEN /\ Len(session.generated_images.items) < MaxImages
                /\ session' = [session EXCEPT
                                  !.generated_images = List(Append(@.items, image))]
           ELSE UNCHANGED session
        /\ IF saves
           THEN /\ Fits(1)
                /\ generated_media' = Append(generated_media, row)
                /\ sqlite_sequence' = [sqlite_sequence EXCEPT !["generated_media"] = row.id]
           ELSE UNCHANGED <<generated_media, sqlite_sequence>>
        /\ last' = Call("image_button", <<brief_key>>, result)
        /\ open_conns' = get_db(Returned(None))
        /\ UNCHANGED <<policies, policy_contents, clock, llm>>

BriefKeys == {"image_brief_1", "image_brief_2"}

\* The page with the image tab.
NextImages ==
    \/ NextPage
    \/ \E brief_key \in BriefKeys, result \in ImageResults : image_button(brief_key, result)

SpecImages == InitPage /\ [][NextImages]_vars

\* what the category box may hold, and the paths of the category database
CategoryTexts == {"", "environment"}

full_paths == {"environment > air > air quality"}

TextChars ==
    [text \in CategoryTexts \cup full_paths |->
        CASE text = "" -> <<>>
          [] text = "environment" -> <<"e", "n", "v", "i", "r", "o", "n", "m", "e", "n", "t">>
          [] text = "environment > air > air quality" ->
                 <<"e", "n", "v", "i", "r", "o", "n", "m", "e", "n", "t", " ", ">", " ", "a", "i", "r", " ", ">", " ", "a", "i", "r", " ", "q", "u", "a", "l", "i", "t", "y">>]

\* the paths that hold the text of the category box
autocomplete_suggestions(policy_category) ==
    {full_path \in full_paths : Contains(TextChars[full_path], TextChars[policy_category])}

\* A script run after the text of the category box changed, no button pressed.
category_input(policy_category) ==
    /\ tables' = tables \cup AllTables
    /\ session' = CategoryBox(session, policy_category)
    /\ last' = Call("category_input", <<policy_category>>, None)
    /\ open_conns' = get_db(Returned(None))
    /\ UNCHANGED <<sqlite_sequence, policies, policy_contents, generated_media, clock, llm>>

\* The select button of a suggestion: the selection is left in temp_selection
\* and the script run it asks for takes it over into the category box.
autocomplete_select(suggestion) ==
    /\ session.selected_category.s \in CategoryTexts
    /\ session.selected_category.s # ""
    /\ suggestion \in autocomplete_suggestions(session.selected_category.s)
    /\ tables' = tables \cup AllTables
    /\ session' = CategoryBox([session EXCEPT !.temp_selection = Str(suggestion)], suggestion)
    /\ last' = Call("autocomplete_select", <<suggestion>>, None)
    /\ open_conns' = get_db(Returned(None))
    /\ UNCHANGED <<sqlite_sequence, policies, policy_contents, generated_media, clock, llm>>

\* one style text: its heading and what the f-string puts in
StyleText(style, narrative, cta) ==
    [t |-> "str", s |-> style, items |-> <<"Narrative:", narrative, "Final Message:", cta>>]

generate_video_prompts_3styles(brief) ==
    LET narrative == Get(brief, "narrative_arc")
        cta == Get(brief, "call_to_action")
    IN  Dict(<<[k |-> "documentary", v |-> StyleText("documentary realism", narrative, cta)],
               [k |-> "cinematic", v |-> StyleText("cinematic", narrative, cta)],
               [k |-> "modern_dynamic", v |-> StyleText("modern dynamic", narrative, cta)]>>)

\* The video prompts button of the fourth tab.
video_button ==
    LET briefs == Item(session.current_analysis, "content_briefs") IN
    /\ ImageTabUsable
    /\ HasKey(briefs, "video_brief")
    /\ Len(session.video_prompts_3styles.items) < MaxImages
    /\ tables' = tables \cup AllTables
    /\ session' = [session EXCEPT
                      !.video_prompts_3styles =
                          List(Append(@.items,
                                      generate_video_prompts_3styles(Item(briefs, "video_brief"))))]
    /\ last' = Call("video_button", <<>>, None)
    /\ open_conns' = get_db(Returned(None))
    /\ UNCHANGED <<sqlite_sequence, policies, policy_contents, generated_media, clock, llm>>

\* Every button that writes the session, at one reading of the clock.
NextSession ==
    \/ \E form \in FormInputs : save_policy_button(form)
    \/ \E form \in FormInputs, r1, r2 \in PageResponses : ai_analysis_button(form, r1, r2)
    \/ \E i \in DOMAIN policies : load_button(policies[i])
    \/ new_policy_button
    \/ \E brief_key \in BriefKeys, result \in ImageResults : image_button(brief_key, result)
    \/ video_button
    \/ \E policy_category \in CategoryTexts : category_input(policy_category)
    \/ \E suggestion \in full_paths : autocomplete_select(suggestion)

SpecSession == InitPage /\ [][NextSession]_vars

\* The media repository alone.
NextMedia ==
    \/ Tick
    \/ init_database
    \/ \E id \in PolicyIdArgs, ty \in MediaTypes :
           save_generated_media(id, ty, "png", "a street", Dict(<<[k |-> "size", v |-> Str("1024")]>>))
    \/ \E id \in PolicyIdArgs, ty \in MediaTypeArgs : get_generated_media(id, ty)

SpecMedia == Init /\ [][NextMedia]_vars

-----------------------------------------------------------------------------
(* Vocabulary of the properties.                                           *)

Rows(seq) == {seq[i] : i \in DOMAIN seq}

\* the calendar day a timestamp or date text names
DayNumber(text) == 10 * (text[9] - Ord("0")) + (text[10] - Ord("0"))

IsDateText(text) == \E d \in Days : text = strftime_ymd(d)

\* the instant a timestamp text names, in half seconds since the month began
Instant(text) == 2 * DayNumber(text) + (IF Len(text) > 12 THEN 1 ELSE 0)

NewestFirst(seq) ==
    \A i, j \in DOMAIN seq :
        i < j => Instant(seq[i].created_at) >= Instant(seq[j].created_at)

IsCall(op) == last.op = op

-----------------------------------------------------------------------------
(* C1: every identifier create_policy returns is greater than every        *)
(* identifier an earlier create_policy returned: the identifiers of the    *)
(* stored policies strictly increase in insertion order, and the call      *)
(* returns the identifier of the row it has just inserted, the largest.    *)
C1_CreateReturnsIncreasingIds ==
    /\ \A i, j \in DOMAIN policies : i < j => policies[i].id < policies[j].id
    /\ IsCall("create_policy") =>
           /\ policies # <<>>
           /\ last.ret = policies[Len(policies)].id
           /\ last.ret > 0
           /\ \A i \in 1..(Len(policies) - 1) : policies[i].id < last.ret

\* a second create_policy has returned
C1_Witness ==
    /\ IsCall("create_policy")
    /\ Len(policies) >= 2
    /\ last.ret = 2

(* C2: right after create_policy(title, category, target_audience,         *)
(* description) returned id, the row get_policy(id) finds carries the four *)
(* arguments, status "draft" and created_at = updated_at.                  *)
C2_CreateThenGetById ==
    IsCall("create_policy") =>
        LET row == PolicyById(policies, last.ret) IN
        /\ row # None
        /\ row.id = last.ret
        /\ row.title = last.args[1]
        /\ row.category = last.args[2]
        /\ row.target_audience = last.args[3]
        /\ row.description = last.args[4]
        /\ row.status = "draft"
        /\ row.created_at = row.updated_at

\* the second policy has been created, later than the first
C2_Witness ==
    /\ IsCall("create_policy")
    /\ Len(policies) = 2
    /\ PolicyById(policies, last.ret).created_at # policies[1].created_at

(* C3: update_policy_status(id, s) on an existing id leaves get_policy(id) *)
(* with status s and an updated_at that is not earlier than the one the    *)
(* row had before the call.                                                *)
C3_UpdateStatusThenGetById ==
    [][IsCall("update_policy_status")' =>
          LET before == PolicyById(policies, last'.args[1])
              after == PolicyById(policies', last'.args[1])
          IN  before # None =>
                  /\ after # None
                  /\ after.status = last'.args[2]
                  /\ Instant(after.updated_at) >= Instant(before.updated_at)]_vars

\* a status has been written to an existing policy after its creation tick
C3_Witness ==
    /\ IsCall("update_policy_status")
    /\ LET row == PolicyById(policies, last.args[1]) IN
       /\ row # None
       /\ row.status = "active"
       /\ last.args[2] = "active"
       /\ Instant(row.updated_at) > Instant(row.created_at)

(* C4: a stored policy stays stored under its identifier with its created  *)
(* timestamp, title, category, target audience and description, whatever   *)
(* operation runs; its status and updated timestamp change only in a step  *)
(* of update_policy_status on that identifier.  No row is removed.         *)
C4_PolicyImmutableButStatus ==
    [][/\ Len(policies') >= Len(policies)
       /\ \A i \in DOMAIN policies :
              LET old == policies[i]
                  new == PolicyById(policies', old.id)
              IN  /\ new # None
                  /\ new.id = old.id
                  /\ new.created_at = old.created_at
                  /\ new.title = old.title
                  /\ new.category = old.category
                  /\ new.target_audience = old.target_audience
                  /\ new.description = old.description
                  /\ (new.status # old.status \/ new.updated_at # old.updated_at) =>
                         /\ last'.op = "update_policy_status"
                         /\ last'.args[1] = old.id]_vars

\* a policy whose status was rewritten later shares the store with a content row
C4_Witness ==
    /\ Len(policies) >= 1
    /\ policies[1].status = "active"
    /\ policies[1].updated_at # policies[1].created_at
    /\ Len(policy_contents) + Len(generated_media) >= 1

\* get_all_policies(n) returned ret: at most n rows, newest first, and the n
\* most recently created ones when more than n are stored
ListRecentAsClaimed(n, ret) ==
    /\ Len(ret) <= n
    /\ Rows(ret) \subseteq Rows(policies)
    /\ NewestFirst(ret)
    /\ Len(policies) > n =>
           /\ Len(ret) = n
           /\ Cardinality(Rows(ret)) = n
           /\ \A r \in Rows(ret), p \in Rows(policies) \ Rows(ret) :
                  Instant(r.created_at) >= Instant(p.created_at)

(* C5, as claimed: for every limit n, get_all_policies(n) returns at most  *)
(* n policies, newest first, the n most recent when more than n exist.     *)
C5_ListRecentAnyLimit ==
    IsCall("get_all_policies") => ListRecentAsClaimed(last.args[1], last.ret)

(* C5, amended: the same for every limit n >= 0.                           *)
C5_ListRecentNonNegativeLimit ==
    (IsCall("get_all_policies") /\ last.args[1] >= 0) =>
        ListRecentAsClaimed(last.args[1], last.ret)

\* limit 1 over two policies created at different instants
C5_Witness ==
    /\ IsCall("get_all_policies")
    /\ last.args[1] = 1
    /\ Len(policies) = 2
    /\ policies[1].created_at # policies[2].created_at
    /\ Len(last.ret) = 1

\* the policies created on the calendar day a date text names
CreatedOn(day) == {p \in Rows(policies) : DayNumber(p.created_at) = day}

CreatedBetween(first, final) ==
    {p \in Rows(policies) : first <= DayNumber(p.created_at) /\ DayNumber(p.created_at) <= final}

\* ret lists exactly the rows of set, each once, newest first
ListsNewestFirst(ret, set) ==
    /\ Rows(ret) = set
    /\ Len(ret) = Cardinality(set)
    /\ NewestFirst(ret)

(* C6: get_policies_by_date(d) returns exactly the policies created on the *)
(* calendar day d, whatever their time of day, newest first.               *)
C6_ListByDateExact ==
    (IsCall("get_policies_by_date") /\ IsDateText(last.args[1])) =>
        ListsNewestFirst(last.ret, CreatedOn(DayNumber(last.args[1])))

\* two policies of the same day with different times of day are both returned
C6_Witness ==
    /\ IsCall("get_policies_by_date")
    /\ Len(last.ret) = 2
    /\ last.ret[1].created_at # last.ret[2].created_at

(* C7: get_policies_by_date_range(start, end) returns exactly the policies *)
(* whose created day d satisfies start <= d <= end, the start day and the  *)
(* end day included, newest first.                                         *)
C7_ListByDateRangeInclusive ==
    (/\ IsCall("get_policies_by_date_range")
     /\ IsDateText(last.args[1])
     /\ IsDateText(last.args[2])) =>
        ListsNewestFirst(last.ret,
                         CreatedBetween(DayNumber(last.args[1]), DayNumber(last.args[2])))

\* a range of two days returns a policy of its end day and one of its start day
C7_Witness ==
    /\ IsCall("get_policies_by_date_range")
    /\ last.args[1] # last.args[2]
    /\ Len(last.ret) = 2
    /\ sqlite_date(last.ret[1].created_at) = last.args[2]
    /\ sqlite_date(last.ret[2].created_at) = last.args[1]

(* C8: for every d, get_policies_by_date_range(d, d) and                   *)
(* get_policies_by_date(d) return the same set of policies.                *)
C8_SingleDayRangeIsByDate ==
    /\ (IsCall("get_policies_by_date_range") /\ last.args[1] = last.args[2]) =>
           \A ret \in PoliciesByDateRows(last.args[1]) : Rows(ret) = Rows(last.ret)
    /\ IsCall("get_policies_by_date") =>
           \A ret \in PoliciesByDateRangeRows(last.args[1], last.args[1]) :
               Rows(ret) = Rows(last.ret)

\* a single-day range returns one of two stored policies
C8_Witness ==
    /\ IsCall("get_policies_by_date_range")
    /\ last.args[1] = last.args[2]
    /\ Len(last.ret) = 1
    /\ Len(policies) = 2

(* C9: get_policies_by_date_range(start, end) with start after end returns *)
(* an empty list, whatever is stored.                                      *)
C9_ReversedRangeIsEmpty ==
    (/\ IsCall("get_policies_by_date_range")
     /\ IsDateText(last.args[1])
     /\ IsDateText(last.args[2])
     /\ DayNumber(last.args[1]) > DayNumber(last.args[2])) =>
        last.ret = <<>>

\* a reversed range over a store with a policy on each of its two days
C9_Witness ==
    /\ IsCall("get_policies_by_date_range")
    /\ IsDateText(last.args[1])
    /\ IsDateText(last.args[2])
    /\ DayNumber(last.args[1]) > DayNumber(last.args[2])
    /\ CreatedOn(DayNumber(last.args[1])) # {}
    /\ CreatedOn(DayNumber(last.args[2])) # {}
    /\ last.ret = <<>>

\* right after save_policy_content, every way get_policy_contents of the same
\* policy may end returns the new row with the payload saved and metadata meta
SavedContentReadsBack(meta) ==
    \A end \in PolicyContentsRows(last.args[1]) :
        /\ end.raised = ""
        /\ \E i \in DOMAIN end.value :
               /\ end.value[i].id = sqlite_sequence["policy_contents"]
               /\ end.value[i].content_type = last.args[2]
               /\ end.value[i].content_data = last.args[3]
               /\ end.value[i].metadata = meta

(* C10, as claimed: save_policy_content then get_policy_contents returns a *)
(* row whose payload and metadata equal the ones saved, also when the      *)
(* metadata was omitted (None).                                            *)
C10_ContentRoundTripExact ==
    IsCall("save_policy_content") => SavedContentReadsBack(last.args[4])

(* C10, amended: the payload equals the one saved; the metadata equals the *)
(* one saved when one was given, and is the empty mapping {} when it was   *)
(* omitted (None).                                                         *)
C10_ContentRoundTripDefaultMetadata ==
    IsCall("save_policy_content") =>
        SavedContentReadsBack(IF last.args[4] = None THEN Dict(<<>>) ELSE last.args[4])

\* a nested payload was saved with metadata that is not empty
C10_Witness ==
    /\ IsCall("save_policy_content")
    /\ Len(last.args[3].items) = 2
    /\ Truthy(last.args[4])
    /\ policy_contents # <<>>

-----------------------------------------------------------------------------
\* the content rows stored for a policy
ContentsOf(policy_id) == {r \in Rows(policy_contents) : r.policy_id = policy_id}

(* C11: get_policy_contents(id) returns every content row saved for that   *)
(* policy, each once, and no row of another policy, ordered by created_at  *)
(* descending: of two rows saved at different instants the later one comes *)
(* first.                                                                  *)
C11_GetContentsOwnRowsNewestFirst ==
    IsCall("get_policy_contents") =>
        /\ last.raised = ""
        /\ \A i \in DOMAIN last.ret : last.ret[i].policy_id = last.args[1]
        /\ {r.id : r \in Rows(last.ret)} = {r.id : r \in ContentsOf(last.args[1])}
        /\ Len(last.ret) = Cardinality(ContentsOf(last.args[1]))
        /\ NewestFirst(last.ret)

\* the policy holds two rows of one type saved at different instants, the
\* other policy none, and the later row is listed first
C11_Witness ==
    /\ IsCall("get_policy_contents")
    /\ last.raised = ""
    /\ Len(last.ret) = 2
    /\ last.ret[1].content_type = last.ret[2].content_type
    /\ Instant(last.ret[1].created_at) > Instant(last.ret[2].created_at)
    /\ last.ret[1].id > last.ret[2].id

-----------------------------------------------------------------------------
\* the media rows stored for a policy
MediaOf(policy_id) == {r \in Rows(generated_media) : r.policy_id = policy_id}

\* ret lists the rows of set, each once, newest first
ListsRowsNewestFirst(ret, set) ==
    /\ {r.id : r \in Rows(ret)} = {r.id : r \in set}
    /\ Len(ret) = Cardinality(set)
    /\ NewestFirst(ret)

(* C12: get_generated_media(id, media_type) returns exactly the policy's   *)
(* rows whose media type equals media_type, newest first, for every media  *)
(* type a row can hold; get_generated_media(id, None) returns the policy's *)
(* rows of every media type, newest first.                                 *)
C12_GetMediaFiltersByType ==
    IsCall("get_generated_media") =>
        /\ last.raised = ""
        /\ ListsRowsNewestFirst(
               last.ret,
               IF last.args[2] = None
               THEN MediaOf(last.args[1])
               ELSE {r \in MediaOf(last.args[1]) : r.media_type = last.args[2].s})

-----------------------------------------------------------------------------
\* seq' holds the rows of seq, unchanged and in place, and n rows more
Appended(old, new, n) ==
    /\ Len(new) = Len(old) + n
    /\ SubSeq(new, 1, Len(old)) = old

\* the steps that are calls of save_policy_content and of save_generated_media
SaveContentStep ==
    /\ last'.op = "save_policy_content"
    /\ save_policy_content(last'.args[1], last'.args[2], last'.args[3], last'.args[4])

SaveMediaStep ==
    /\ last'.op = "save_generated_media"
    /\ save_generated_media(last'.args[1], last'.args[2], last'.args[3],
                            last'.args[4], last'.args[5])

(* C13: the rows of policy_contents and generated_media are append-only:   *)
(* no step of any repository operation changes a field of a stored row or  *)
(* removes one; each save_policy_content and each save_generated_media     *)
(* call adds exactly one row to its table and leaves every row stored      *)
(* before, in all three tables, as it was; no other step adds a row.       *)
C13_ContentAndMediaAppendOnly ==
    [][/\ \E n \in {0, 1} : Appended(policy_contents, policy_contents', n)
       /\ \E n \in {0, 1} : Appended(generated_media, generated_media', n)
       /\ SaveContentStep <=> Appended(policy_contents, policy_contents', 1)
       /\ SaveMediaStep <=> Appended(generated_media, generated_media', 1)
       /\ SaveContentStep \/ SaveMediaStep => policies' = policies]_vars

\* a second media row of the same policy and type was just saved beside the first
C13_Witness ==
    /\ IsCall("save_generated_media")
    /\ Len(generated_media) = 2
    /\ generated_media[1].policy_id = generated_media[2].policy_id
    /\ generated_media[1].media_type = generated_media[2].media_type
    /\ generated_media[1].id = 1
    /\ generated_media[2].id = 2

-----------------------------------------------------------------------------
\* both texts of a stored content row deserialize
WellFormed(r) ==
    /\ json_loads(r.content_data) # JSONDecodeError
    /\ r.metadata # <<>> => json_loads(r.metadata) # JSONDecodeError

(* C14: when a content row of the policy holds a content_data or metadata  *)
(* text that does not deserialize, get_policy_contents(id) still returns:  *)
(* it raises nothing and lists every well-formed row of the policy.        *)
C14_CorruptRowDoesNotAbortListing ==
    IsCall("get_policy_contents") =>
        /\ last.raised = ""
        /\ \A r \in ContentsOf(last.args[1]) :
               WellFormed(r) => \E i \in DOMAIN last.ret : last.ret[i].id = r.id

-----------------------------------------------------------------------------
\* the steps that are calls of update_policy_status
UpdateStatusStep ==
    /\ last'.op = "update_policy_status"
    /\ update_policy_status(last'.args[1], last'.args[2])

(* C15: update_policy_status(id, s) with an id no policy has is a silent   *)
(* no-op: the call raises nothing and leaves every policy row, every       *)
(* content row and every media row as it was.                              *)
C15_UpdateStatusMissingIdIsNoOp ==
    [][UpdateStatusStep /\ PolicyById(policies, last'.args[1]) = None =>
           /\ last'.raised = ""
           /\ last'.ret = None
           /\ policies' = policies
           /\ policy_contents' = policy_contents
           /\ generated_media' = generated_media
           /\ sqlite_sequence' = sqlite_sequence]_vars

\* the status of an id no policy has was just set, beside a stored policy and
\* a stored content or media row
C15_Witness ==
    /\ IsCall("update_policy_status")
    /\ PolicyById(policies, last.args[1]) = None
    /\ Len(policies) = 1
    /\ policies[1].status = "draft"
    /\ last.args[2] = "active"
    /\ Len(policy_contents) + Len(generated_media) = 1

-----------------------------------------------------------------------------
\* the steps that are calls of get_policy
GetPolicyStep ==
    /\ last'.op = "get_policy"
    /\ get_policy(last'.args[1])

(* C16: get_policy(id) returns the stored row of that id when there is one *)
(* and None when there is none; it raises nothing, for a missing id too,   *)
(* and changes nothing in the store.                                       *)
C16_GetByIdRowOrNone ==
    [][GetPolicyStep =>
           /\ last'.raised = ""
           /\ \A r \in Rows(policies) : r.id = last'.args[1] => last'.ret = r
           /\ (\A r \in Rows(policies) : r.id # last'.args[1]) => last'.ret = None
           /\ UNCHANGED db]_vars

\* an id no policy has was looked up while another policy is stored
C16_Witness ==
    /\ IsCall("get_policy")
    /\ last.raised = ""
    /\ last.ret = None
    /\ policies # <<>>
    /\ \A r \in Rows(policies) : r.id # last.args[1]

-----------------------------------------------------------------------------
\* the steps that are calls of init_database
InitDatabaseStep ==
    /\ last'.op = "init_database"
    /\ init_database

(* C17: init_database is idempotent and non-destructive: it leaves the     *)
(* four tables present and every stored row and row counter as it was, and *)
(* called on a store that holds the four tables it changes nothing, so any *)
(* number of calls leaves the store as one call does.                      *)
C17_InitDatabaseIdempotent ==
    [][InitDatabaseStep =>
           /\ last'.raised = ""
           /\ tables' = AllTables
           /\ policies' = policies
           /\ policy_contents' = policy_contents
           /\ generated_media' = generated_media
           /\ sqlite_sequence' = sqlite_sequence
           /\ tables = AllTables => db' = db]_vars

\* init_database was just called again on a store that holds rows
C17_Witness ==
    /\ IsCall("init_database")
    /\ tables = AllTables
    /\ policies # <<>>
    /\ policy_contents # <<>> \/ generated_media # <<>>

-----------------------------------------------------------------------------
(* C20: save_policy_content does not check that policy_id is the id of a   *)
(* stored policy: called with an id no policy has it raises nothing, adds  *)
(* exactly one row, and every way get_policy_contents of that id may end   *)
(* right after returns that row.                                           *)
C20_SaveContentOfMissingPolicy ==
    [][SaveContentStep /\ PolicyById(policies, last'.args[1]) = None =>
           /\ last'.raised = ""
           /\ Appended(policy_contents, policy_contents', 1)
           /\ policies' = policies
           /\ \A id \in PolicyIdArgs :
                  id = last'.args[1] =>
                      \A end \in ContentsRowsOf(policy_contents', id) :
                          /\ end.raised = ""
                          /\ \E i \in DOMAIN end.value :
                                 /\ end.value[i].id = sqlite_sequence'["policy_contents"]
                                 /\ end.value[i].policy_id = id
                                 /\ end.value[i].content_data = last'.args[3]]_vars

\* a content row was just saved under an id no policy has, beside a stored policy
C20_Witness ==
    /\ IsCall("save_policy_content")
    /\ last.raised = ""
    /\ policies # <<>>
    /\ PolicyById(policies, last.args[1]) = None
    /\ policy_contents # <<>>
    /\ policy_contents[Len(policy_contents)].policy_id = last.args[1]

-----------------------------------------------------------------------------
(* C18: every repository operation opens a connection of its own and       *)
(* closes it on every way out: after an operation has returned or raised,  *)
(* no connection is open, so none stays open between operations.           *)
C18_NoConnectionLeftOpen == open_conns = 0

\* get_policy_contents has just raised out of its with block
C18_Witness ==
    /\ IsCall("get_policy_contents")
    /\ last.raised = "JSONDecodeError"
    /\ open_conns = 0

-----------------------------------------------------------------------------
\* the response is a text that json.loads accepts once stripped and unfenced
Parses(r) == r.kind = "text" /\ json_loads(StripFences(r.text)) # JSONDecodeError

\* the value that text parses to
ParsedValue(r) == json_loads(StripFences(r.text))

\* the response is a text that parses to a value Python holds true: not null,
\* and not an empty object, list or string
ParsesToData(r) == Parses(r) /\ Truthy(ParsedValue(r))

\* a response that ended the call by an exception
Failed(r) == r.kind # "text"

\* one call of generate_policy_analysis and its requests, where Accepted
\* tells the first responses that are returned at once
TwoAttempts(Accepted(_)) ==
    /\ llm.requests <= 2
    /\ Len(llm.responses) <= llm.requests
    /\ llm.requests = 2 =>
           /\ ~Accepted(llm.responses[1])
           /\ ~Failed(llm.responses[1])
    /\ Len(llm.responses) >= 1 /\ Accepted(llm.responses[1]) =>
           /\ llm.requests = 1
           /\ llm.pc = "returned"
           /\ llm.data = ParsedValue(llm.responses[1])
    /\ Len(llm.responses) = 2 /\ ~Parses(llm.responses[2]) =>
           /\ llm.pc = "returned"
           /\ llm.data = None
    /\ (\E i \in DOMAIN llm.responses : Failed(llm.responses[i])) =>
           /\ llm.pc = "returned"
           /\ llm.data = None

-----------------------------------------------------------------------------
\* rows of equal created_at come in the order of their ids, all ascending or
\* all descending
TiesInInsertionOrder(ret) ==
    \/ \A i, j \in DOMAIN ret :
           i < j /\ ret[i].created_at = ret[j].created_at => ret[i].id < ret[j].id
    \/ \A i, j \in DOMAIN ret :
           i < j /\ ret[i].created_at = ret[j].created_at => ret[i].id > ret[j].id

-----------------------------------------------------------------------------
\* the analysis rows stored for a policy
AnalysesOf(policy_id) == {r \in ContentsOf(policy_id) : r.content_type = "analysis"}

\* the analysis row of a policy that was saved last
LatestAnalysis(policy_id) ==
    CHOOSE r \in AnalysesOf(policy_id) : \A o \in AnalysesOf(policy_id) : o.id <= r.id

(* C22: loading a saved policy that has analysis rows, however many, sets  *)
(* the session's current analysis to the payload of the one saved last.    *)
C22_LoadSetsLatestAnalysis ==
    IsCall("load_button") /\ AnalysesOf(last.args[1]) # {} =>
        session.current_analysis = json_loads(LatestAnalysis(last.args[1]).content_data)

\* a policy with two analysis rows saved at different instants was loaded
\* and the session holds the payload of the earlier row
C22_OldestAnalysisLoaded ==
    /\ IsCall("load_button")
    /\ \E a, b \in AnalysesOf(last.args[1]) :
           /\ a.id < b.id
           /\ a.created_at # b.created_at
           /\ a.content_data # b.content_data
           /\ session.current_analysis = json_loads(a.content_data)

-----------------------------------------------------------------------------
\* a session field that holds something other than None
IsSet(v) == v # None

\* the analysis of the session is the payload of an analysis row stored under
\* the policy of the session
AnalysisOfCurrentPolicy ==
    \E r \in AnalysesOf(session.current_policy_id.items[1]) :
        json_loads(r.content_data) = session.current_analysis

(* C23: in every state the buttons (save policy, AI analysis, load, new    *)
(* policy) lead to, when current_policy_id and current_analysis are both   *)
(* set, current_analysis is the payload of some analysis row stored under  *)
(* current_policy_id; so a load never leaves another policy's analysis.    *)
C23_AnalysisBelongsToCurrentPolicy ==
    IsSet(session.current_policy_id) /\ IsSet(session.current_analysis) =>
        AnalysisOfCurrentPolicy

\* a policy without analysis rows was loaded and the session still holds the
\* analysis of the policy selected before
C23_StaleAnalysisAfterLoad ==
    /\ IsCall("load_button")
    /\ session.current_policy_id = PyInt(last.args[1])
    /\ AnalysesOf(last.args[1]) = {}
    /\ IsSet(session.current_analysis)
    /\ \E r \in Rows(policy_contents) :
           /\ r.policy_id # last.args[1]
           /\ json_loads(r.content_data) = session.current_analysis

-----------------------------------------------------------------------------
\* the step is an image button that added an image to the session
ImageAddedStep ==
    /\ last'.op = "image_button"
    /\ Len(session'.generated_images.items) = Len(session.generated_images.items) + 1

\* the step appended one row of type image under the policy of the session
\* and no other row
ImagePersistedStep ==
    /\ Truthy(session.current_policy_id)
    /\ Len(generated_media') = Len(generated_media) + 1
    /\ SubSeq(generated_media', 1, Len(generated_media)) = generated_media
    /\ generated_media'[Len(generated_media')].media_type = "image"
    /\ generated_media'[Len(generated_media')].policy_id = session.current_policy_id.items[1]
    /\ generated_media'[Len(generated_media')].media_data =
           session'.generated_images.items[Len(session'.generated_images.items)].items[2].v.s
    /\ session'.current_policy_id = session.current_policy_id
    /\ UNCHANGED <<policies, policy_contents>>

(* C24: every image an image button adds to generated_images is persisted: *)
(* the step that adds it inserts exactly one generated_media row of type   *)
(* image under current_policy_id, and in every reachable state a set       *)
(* current_analysis comes with a set current_policy_id.                    *)
C24_GeneratedImageIsPersisted ==
    /\ [](Truthy(session.current_analysis) => Truthy(session.current_policy_id))
    /\ [][ImageAddedStep => ImagePersistedStep]_vars

\* an image button added an image brief to a session that held none, and the
\* store holds its row under the policy of the session
C24_Witness ==
    /\ IsCall("image_button")
    /\ Truthy(last.ret)
    /\ Len(session.generated_images.items) = 1
    /\ session.generated_images.items[1].items[3].v = Str(last.args[1])
    /\ Len(generated_media) = 1
    /\ generated_media[1].policy_id = session.current_policy_id.items[1]
    /\ generated_media[1].media_type = "image"

-----------------------------------------------------------------------------
\* the step is a press of the new-policy button
NewPolicyStep == last'.op = "new_policy_button" /\ new_policy_button

\* the session holds what the claim lists
ListedDefaults(state) ==
    /\ state.current_policy_id = None
    /\ state.current_analysis = None
    /\ state.generated_images = List(<<>>)
    /\ state.video_prompts_3styles = List(<<>>)
    /\ state.selected_category = Str("")
    /\ state.temp_selection = Str("")
    /\ state.workflow_step = Str(steps[1])
    /\ state.show_results = Bool(FALSE)

(* C25: from any reachable state the new-policy button leaves the session  *)
(* at exactly the defaults of init_session_state (no policy, no analysis,  *)
(* empty image and video prompt lists, empty category and selection, the   *)
(* first workflow step, show_results False) and changes nothing in the     *)
(* store.                                                                  *)
C25_NewPolicyResetsToDefaults ==
    [][NewPolicyStep =>
          /\ session' = init_session_state
          /\ ListedDefaults(session')
          /\ UNCHANGED <<tables, sqlite_sequence, policies, policy_contents, generated_media>>]_vars

\* the button was pressed with rows in all three tables in a session that
\* held a policy, an analysis, an image, video prompts, a category, a later
\* workflow step and shown results, and the session is at its defaults
C25_Witness ==
    /\ IsCall("new_policy_button")
    /\ IsSet(last.args[1].current_policy_id)
    /\ IsSet(last.args[1].current_analysis)
    /\ last.args[1].generated_images # List(<<>>)
    /\ last.args[1].video_prompts_3styles # List(<<>>)
    /\ last.args[1].selected_category # Str("")
    /\ last.args[1].workflow_step # Str(steps[1])
    /\ last.args[1].show_results = Bool(TRUE)
    /\ session = init_session_state
    /\ policies # <<>> /\ policy_contents # <<>> /\ generated_media # <<>>

-----------------------------------------------------------------------------
\* the step is a press of the analysis button on a form with title and
\* description, so the analysis generation ran
AnalysisStep ==
    /\ last'.op = "ai_analysis_button"
    /\ last'.args[1] # "" /\ last'.args[4] # ""

\* the generation gave no parsed data: None, or a value that is false
AnalysisFailedStep == AnalysisStep /\ ~Truthy(last'.ret)

\* the step appended one policy row made of the form and nothing else
PolicyOfFormCreated ==
    /\ Len(policies') = Len(policies) + 1
    /\ SubSeq(policies', 1, Len(policies)) = policies
    /\ policies'[Len(policies')].title = last'.args[1]
    /\ policies'[Len(policies')].description = last'.args[4]
    /\ session'.current_policy_id = PyInt(policies'[Len(policies')].id)

(* C26: when the AI analysis action runs and the generation returns no     *)
(* parsed data, no policy_contents row is written and current_analysis,    *)
(* show_results and workflow_step keep their values; with no current       *)
(* policy the action has created one, which stays in the store with        *)
(* current_policy_id set to it; and the action, failed or not, creates a   *)
(* policy only when current_policy_id was unset.                           *)
C26_FailedAnalysisKeepsSessionAndPolicy ==
    /\ [][AnalysisFailedStep =>
             /\ policy_contents' = policy_contents
             /\ generated_media' = generated_media
             /\ session'.current_analysis = session.current_analysis
             /\ session'.show_results = session.show_results
             /\ session'.workflow_step = session.workflow_step
             /\ IF IsSet(session.current_policy_id)
                THEN /\ policies' = policies
                     /\ session'.current_policy_id = session.current_policy_id
                ELSE PolicyOfFormCreated]_vars
    /\ [][AnalysisStep /\ policies' # policies =>
             ~IsSet(session.current_policy_id) /\ PolicyOfFormCreated]_vars

\* the button was pressed in a session without a policy, the generation
\* gave nothing, and the store holds the new policy and no content row
C26_Witness ==
    /\ IsCall("ai_analysis_button")
    /\ last.args[1] # "" /\ last.args[4] # ""
    /\ ~Truthy(last.ret)
    /\ Len(policies) = 1
    /\ policy_contents = <<>>
    /\ session.current_policy_id = PyInt(policies[1].id)
    /\ session.current_analysis = None
    /\ session.show_results = Bool(FALSE)
    /\ session.workflow_step = Str(steps[1])

=============================================================================
